---- MODULE Spec2Model ----
(***************************************************************************)
(* Model of the TTS comparison harness (generate_tts_comparison_report.py): *)
(* the ResourceMonitor with its background sampling thread, the            *)
(* TTSModelTester service lifecycle and the TTSComparison.run_comparison   *)
(* loop.  The main thread and the sampling threads are interleaved at the  *)
(* points where they touch shared state (monitoring, data).                *)
(***************************************************************************)
EXTENDS Integers, Sequences, FiniteSets, Bags

VARIABLES
    pc,             \* position of the main thread
    idx,            \* run_comparison: index of the service being processed
    cwd,            \* process working directory: 0 = original_dir, i = directory of service i
    ssUp,           \* start_service: outcome of the 'docker compose up' step of this call
    pollLog,        \* start_service: results of the health polls of this call
    started,        \* per service: return value of tester.start_service() ("none" before it returns)
    docker,         \* orchestration layer, per service: up?, up/down commands issued
    startCalls,     \* per service: number of start_service calls
    monId,          \* identity of the ResourceMonitor object held by 'monitor'
    monOf,          \* per service: identity of the monitor that sampled it (0 = none)
    probed,         \* outcome of the nvidia-smi probe run by the constructor of 'monitor'
    monitoring,     \* ResourceMonitor.monitoring
    data,           \* ResourceMonitor.data
    gpu_available,  \* ResourceMonitor.gpu_available
    thread,         \* ResourceMonitor.thread: 0 = attribute not set, else a thread id
    threads,        \* the sampling threads created for this monitor
    resource_stats, \* value returned by the last stop_monitoring
    synth,          \* _run_synthesis_tests: results so far
    test_results,   \* value returned by the last run_tests
    models_out,     \* comparison_data["models"]
    events,         \* per service: the steps run_comparison has taken for it
    report,         \* whether generate_report has written the report
    exit_status,    \* exit status of the process ("none" while it runs)
    interrupts,     \* the user interrupts (SIGINT) delivered to the main thread so far
    cp_model,       \* _copy_audio_files: index of the model being processed (0 before the loop)
    cp_status,      \* _copy_audio_files: the 'status' of that model's entry
    audio_counter,  \* _copy_audio_files: audio_counter
    audio_dir,      \* the files of the report's audio directory: name -> source
    copy_log,       \* _copy_audio_files: the audio_info entries processed so far
    parallel_tests, \* TTSComparator.config['parallel_tests']
    health_results, \* run_comprehensive_tests: per service, the result of check_service_health
    health_probes,  \* per service: what GET /health did when it was probed
    available_services, \* run_comprehensive_tests: the services found healthy, in order
    futures,        \* run_comprehensive_tests: the futures submitted to the pool, in order
    all_results,    \* run_comprehensive_tests: all_results, as the bag of its elements
    ret,            \* value returned by run_comprehensive_tests
    stop_len,       \* stop_monitoring: len(self.data) when it cleared the flag (history)
    now,            \* _run_synthesis_tests: the clock (time.time()), in seconds
    debug_audio,    \* the WAV files in the service's debug_audio directory, with their mtime
    results,        \* _run_synthesis_tests: results, in the order of the tests
    audio_files,    \* TTSModelTester.audio_files
    oracle,         \* per submitted pair: what its request will do (fixed for a run)
    results_saved,  \* run_comprehensive_tests: save_results wrote the results file
    reports_generated, \* run_comprehensive_tests: generate_reports wrote the reports
    check_log,      \* test_comparison_setup.main: the checks called so far, with what each met
    check_results,  \* test_comparison_setup.main: results
    ready           \* value returned by test_comparison_setup.main ("none" before it returns)

vars == <<pc, idx, cwd, ssUp, pollLog, started, docker, startCalls, monId, monOf,
          probed, monitoring, data, gpu_available, thread, threads, resource_stats,
          synth, test_results, models_out, events, report, exit_status, interrupts,
          cp_model, cp_status, audio_counter, audio_dir, copy_log, stop_len,
          now, debug_audio, results, audio_files, oracle,
          results_saved, reports_generated, check_log, check_results, ready,
          parallel_tests, health_results, health_probes, available_services, futures,
          all_results, ret>>

monVars == <<monitoring, data, gpu_available, thread, threads>>
objVars == <<monId, probed>>
svcVars == <<idx, cwd, ssUp, pollLog, started, docker, startCalls, monOf,
             synth, test_results, models_out, events, report>>
cmpOut == <<results_saved, reports_generated>>
cmpVars == <<parallel_tests, health_results, health_probes, available_services, futures,
             all_results, ret, cmpOut>>
copyVars == <<cp_model, cp_status, audio_counter, audio_dir, copy_log>>
capVars == <<now, debug_audio, results, audio_files>>
setupVars == <<check_log, check_results, ready>>
auxVars == <<capVars, oracle, setupVars>>
extRest == <<exit_status, interrupts, copyVars, cmpVars, auxVars>>
extVars == <<extRest, stop_len>>

----------------------------------------------------------------------------
(* Bounds of the model *)

NumServices == 2        \* number of configured services (self.models)
MaxSamples == 3         \* samples one monitor session may collect (monitor specification)
MaxRunSamples == 1      \* samples one monitor session may collect (run_comparison specification)
MaxThreads == 2         \* sampling threads one monitor may create

(* Program constants *)

MaxWait == 120          \* start_service: max_wait
PollInterval == 5       \* start_service: time.sleep(5) / max_wait // 5
CpuInterval == 1        \* _monitor_loop: psutil.cpu_percent(interval=1)
SleepInterval == 2      \* _monitor_loop: time.sleep(2)
DurationFactor == 2     \* stop_monitoring: len(self.data) * 2

MaxPolls == MaxWait \div PollInterval

Services == 1..NumServices
ThreadIds == 1..MaxThreads

----------------------------------------------------------------------------
(* Sequence helpers *)

RECURSIVE SumSeq(_)
SumSeq(s) == IF s = <<>> THEN 0 ELSE Head(s) + SumSeq(Tail(s))

Range(s) == {s[i] : i \in 1..Len(s)}

MaxOf(s) == CHOOSE m \in Range(s) : \A v \in Range(s) : v <= m
MinOf(s) == CHOOSE m \in Range(s) : \A v \in Range(s) : m <= v

Column(d, f) == [i \in 1..Len(d) |-> d[i][f]]

(* statistics.mean: the exact quotient sum/len, kept as a fraction *)
MeanWrongLen(s) == [num |-> SumSeq(s), den |-> IF Len(s) > 1 THEN Len(s) - 1 ELSE 1]
Mean(s) == [num |-> SumSeq(s), den |-> Len(s)]

----------------------------------------------------------------------------
(* Readings of the host the sampling loop can get.  A psutil read either
   returns a value or raises; the nvidia-smi query returns a parsed line, a
   nonzero return code, raises, or prints a line that does not split into
   three fields. *)

CpuRead(v) == [ok |-> TRUE, v |-> v]
CpuRaise == [ok |-> FALSE, v |-> 0]
MemRead(p, u) == [ok |-> TRUE, percent |-> p, used |-> u]
MemRaise == [ok |-> FALSE, percent |-> 0, used |-> 0]
GpuLine(u, m, t) == [rc |-> "zero", gpu_util |-> u, gpu_memory |-> m, gpu_temp |-> t]
GpuFail(kind) == [rc |-> kind, gpu_util |-> 0, gpu_memory |-> 0, gpu_temp |-> 0]

CpuVals == {CpuRead(20), CpuRead(60)}
MemVals == {MemRead(40, 4), MemRead(70, 7)}
GpuVals == {GpuLine(30, 1000, 50), GpuLine(90, 3000, 80)}
GpuFailures == {GpuFail("nonzero"), GpuFail("raise"), GpuFail("unparsable")}

CpuIdle == {CpuRead(20)}
MemIdle == {MemRead(40, 4)}
GpuIdle == {GpuLine(30, 1000, 50)}

GpuZero == [gpu_util |-> 0, gpu_memory |-> 0, gpu_temp |-> 0]

NoSample == [timestamp |-> 0, cpu_percent |-> 0, memory_percent |-> 0,
             memory_used_gb |-> 0, gpu_util |-> 0, gpu_memory |-> 0, gpu_temp |-> 0]

NoThread == [pc |-> "unborn", clock |-> 0, ts |-> 0, sample |-> NoSample]

----------------------------------------------------------------------------
(* ResourceMonitor *)

(* _check_gpu: True iff nvidia-smi ran and returned 0 *)
ProbeOutcomes == {"zero", "nonzero", "raise"}
CheckGpu(outcome) == outcome = "zero"

(* _get_gpu_stats: q is the outcome of the query, used only if the GPU is available *)
GpuFields(q) == [gpu_util |-> q.gpu_util, gpu_memory |-> q.gpu_memory, gpu_temp |-> q.gpu_temp]
GetGpuStatsUnguarded(avail, q) == IF q.rc = "zero" THEN GpuFields(q) ELSE GpuZero
GetGpuStats(avail, q) ==
    IF ~avail THEN GpuZero
    ELSE IF q.rc = "zero" THEN GpuFields(q)
    ELSE GpuZero

(* __init__ *)
NewMonitor(probe) ==
    /\ monId' = monId + 1
    /\ probed' = probe
    /\ monitoring' = FALSE
    /\ data' = <<>>
    /\ gpu_available' = CheckGpu(probe)
    /\ thread' = 0
    /\ threads' = [t \in ThreadIds |-> NoThread]

(* stop_monitoring, after the join: the statistics of the buffer *)
EmptyStats == [k \in {} |-> 0]
StatsError == [error |-> "StatisticsError"]

FullStats(d, avail) ==
    [duration |-> Len(d) * DurationFactor,
     cpu |-> [avg |-> Mean(Column(d, "cpu_percent")),
              max |-> MaxOf(Column(d, "cpu_percent")),
              min |-> MinOf(Column(d, "cpu_percent"))],
     memory |-> [avg |-> Mean(Column(d, "memory_percent")),
                 max |-> MaxOf(Column(d, "memory_percent")),
                 min |-> MinOf(Column(d, "memory_percent")),
                 peak_gb |-> MaxOf(Column(d, "memory_used_gb"))],
     gpu |-> [available |-> avail,
              util_avg |-> Mean(Column(d, "gpu_util")),
              util_max |-> MaxOf(Column(d, "gpu_util")),
              memory_avg |-> Mean(Column(d, "gpu_memory")),
              memory_max |-> MaxOf(Column(d, "gpu_memory"))]]

AggregateNoGuard(d, avail) == IF d = <<>> THEN StatsError ELSE FullStats(d, avail)
Aggregate(d, avail) == IF d = <<>> THEN EmptyStats ELSE FullStats(d, avail)

(* start_monitoring *)
StartMonitoring(next) ==
    /\ pc = "mon_start"
    /\ \E t \in ThreadIds :
          /\ threads[t].pc = "unborn"
          /\ \A u \in ThreadIds : u < t => threads[u].pc # "unborn"
          /\ thread' = t
          /\ threads' = [threads EXCEPT ![t] = [NoThread EXCEPT !.pc = "loop"]]
    /\ monitoring' = TRUE
    /\ data' = <<>>
    /\ pc' = next
    /\ UNCHANGED <<gpu_available, objVars, resource_stats>>

(* stop_monitoring: self.monitoring = False *)
StopFlag ==
    /\ pc = "mon_stop"
    /\ monitoring' = FALSE
    /\ stop_len' = Len(data)
    /\ pc' = "mon_join"
    /\ UNCHANGED <<data, gpu_available, thread, threads, objVars, resource_stats>>

(* stop_monitoring: if hasattr(self, 'thread'): self.thread.join() *)
Terminated(t) == threads[t].pc \in {"done", "crashed"}
JoinNoWait == TRUE
JoinReturns == IF thread = 0 THEN TRUE ELSE Terminated(thread)

StopJoin ==
    /\ pc = "mon_join"
    /\ JoinReturns
    /\ pc' = "mon_agg"
    /\ UNCHANGED <<monVars, objVars, resource_stats>>

(* stop_monitoring: the empty check and the returned statistics *)
StopAggregate(next) ==
    /\ pc = "mon_agg"
    /\ resource_stats' = Aggregate(data, gpu_available)
    /\ pc' = next
    /\ UNCHANGED <<monVars, objVars>>

----------------------------------------------------------------------------
(* _monitor_loop, run by thread t *)

(* while self.monitoring: timestamp = time.time() *)
ThreadCheckIgnoresFlag(t, cap) ==
    /\ threads[t].pc = "loop"
    /\ Len(data) < cap
    /\ threads' = [threads EXCEPT ![t] = [@ EXCEPT !.pc = "read", !.ts = threads[t].clock]]
    /\ UNCHANGED <<monitoring, data, gpu_available, thread>>

ThreadCheck(t, cap) ==
    /\ threads[t].pc = "loop"
    /\ monitoring => Len(data) < cap
    /\ threads' = [threads EXCEPT ![t] =
                     IF monitoring
                     THEN [@ EXCEPT !.pc = "read", !.ts = threads[t].clock]
                     ELSE [@ EXCEPT !.pc = "done"]]
    /\ UNCHANGED <<monitoring, data, gpu_available, thread>>

(* an iteration that takes the result of its GPU query as the availability *)
ThreadReadReprobes(t, cpuOut, memOut, gpuOut) ==
    /\ threads[t].pc = "read"
    /\ \E c \in cpuOut, m \in memOut, q \in gpuOut :
          /\ gpu_available' = (q.rc = "zero")
          /\ threads' = [threads EXCEPT ![t] =
                IF ~c.ok \/ ~m.ok
                THEN [@ EXCEPT !.pc = "crashed"]
                ELSE LET g == GetGpuStats(gpu_available, q) IN
                     [@ EXCEPT !.pc = "append",
                               !.clock = @ + CpuInterval,
                               !.sample = [timestamp |-> threads[t].ts,
                                           cpu_percent |-> c.v,
                                           memory_percent |-> m.percent,
                                           memory_used_gb |-> m.used,
                                           gpu_util |-> g.gpu_util,
                                           gpu_memory |-> g.gpu_memory,
                                           gpu_temp |-> g.gpu_temp]]]
    /\ UNCHANGED <<monitoring, data, thread>>

(* the three reads of one iteration: cpu_percent(interval=1), virtual_memory(),
   _get_gpu_stats(); an exception of psutil is not caught by the loop *)
ThreadRead(t, cpuOut, memOut, gpuOut) ==
    /\ threads[t].pc = "read"
    /\ \E c \in cpuOut, m \in memOut, q \in gpuOut :
          threads' = [threads EXCEPT ![t] =
              IF ~c.ok \/ ~m.ok
              THEN [@ EXCEPT !.pc = "crashed"]
              ELSE LET g == GetGpuStats(gpu_available, q) IN
                   [@ EXCEPT !.pc = "append",
                             !.clock = @ + CpuInterval,
                             !.sample = [timestamp |-> threads[t].ts,
                                         cpu_percent |-> c.v,
                                         memory_percent |-> m.percent,
                                         memory_used_gb |-> m.used,
                                         gpu_util |-> g.gpu_util,
                                         gpu_memory |-> g.gpu_memory,
                                         gpu_temp |-> g.gpu_temp]]]
    /\ UNCHANGED <<monitoring, data, gpu_available, thread>>

(* self.data.append({...}) *)
ThreadAppend(t) ==
    /\ threads[t].pc = "append"
    /\ data' = Append(data, threads[t].sample)
    /\ threads' = [threads EXCEPT ![t] = [@ EXCEPT !.pc = "sleep", !.sample = NoSample]]
    /\ UNCHANGED <<monitoring, gpu_available, thread>>

(* time.sleep(2) *)
ThreadSleep(t) ==
    /\ threads[t].pc = "sleep"
    /\ threads' = [threads EXCEPT ![t] = [@ EXCEPT !.pc = "loop", !.clock = @ + SleepInterval]]
    /\ UNCHANGED <<monitoring, data, gpu_available, thread>>

----------------------------------------------------------------------------
(* A client of one ResourceMonitor: it constructs the monitor, may start it
   once, and stops it (with or without having started it). *)

ClientNew ==
    /\ pc = "client_new"
    /\ \E probe \in ProbeOutcomes : NewMonitor(probe)
    /\ pc' = "client"
    /\ UNCHANGED <<svcVars, resource_stats>>
    /\ UNCHANGED extVars

ClientStart ==
    /\ pc = "client"
    /\ thread = 0
    /\ pc' = "mon_start"
    /\ UNCHANGED <<svcVars, monVars, objVars, resource_stats>>
    /\ UNCHANGED extVars

ClientStop ==
    /\ pc = "client"
    /\ pc' = "mon_stop"
    /\ UNCHANGED <<svcVars, monVars, objVars, resource_stats>>
    /\ UNCHANGED extVars

MonitorThread(t) ==
    /\ \/ ThreadCheck(t, MaxSamples)
       \/ ThreadRead(t, CpuVals \cup {CpuRaise}, MemVals \cup {MemRaise}, GpuVals \cup GpuFailures)
       \/ ThreadAppend(t)
       \/ ThreadSleep(t)
    /\ UNCHANGED <<pc, svcVars, objVars, resource_stats>>
    /\ UNCHANGED extVars

NextMonitor ==
    \/ ClientNew
    \/ ClientStart
    \/ ClientStop
    \/ StartMonitoring("client") /\ UNCHANGED <<svcVars, extVars>>
    \/ StopFlag /\ UNCHANGED <<svcVars, extRest>>
    \/ StopJoin /\ UNCHANGED <<svcVars, extVars>>
    \/ StopAggregate("client_done") /\ UNCHANGED <<svcVars, extVars>>
    \/ \E t \in ThreadIds : MonitorThread(t)

(* no synthesis battery with a debug_audio directory in the process *)
(* the setup verifier has not run *)
InitSetupVars ==
    /\ check_log = <<>>
    /\ check_results = <<>>
    /\ ready = "none"

InitAux ==
    /\ now = 0
    /\ debug_audio = {}
    /\ results = <<>>
    /\ audio_files = <<>>
    /\ oracle = <<>>
    /\ InitSetupVars

NotStopped == -1        \* stop_monitoring has not been called
NoEntry == [status |-> "none"]
NoTests == [synthesis |-> <<>>, test_script |-> "none"]

InitRest ==
    /\ cwd = 0
    /\ ssUp = "none"
    /\ pollLog = <<>>
    /\ started = [i \in Services |-> "none"]
    /\ docker = [i \in Services |-> [up |-> FALSE, ups |-> 0, downs |-> 0]]
    /\ startCalls = [i \in Services |-> 0]
    /\ monId = 0
    /\ probed = "none"
    /\ monOf = [i \in Services |-> 0]
    /\ monitoring = FALSE
    /\ data = <<>>
    /\ gpu_available = FALSE
    /\ thread = 0
    /\ threads = [t \in ThreadIds |-> NoThread]
    /\ resource_stats = EmptyStats
    /\ synth = <<>>
    /\ test_results = NoTests
    /\ models_out = [i \in Services |-> NoEntry]
    /\ events = [i \in Services |-> <<>>]
    /\ report = FALSE
    /\ exit_status = "none"
    /\ interrupts = <<>>
    /\ stop_len = NotStopped
    /\ InitAux
    /\ cp_model = 0
    /\ cp_status = "none"
    /\ audio_counter = 0
    /\ audio_dir = {}
    /\ copy_log = <<>>

InitVars == idx = 0 /\ InitRest

(* no TTSComparator in the process *)
InitCmpVars ==
    /\ parallel_tests = FALSE
    /\ health_results = <<>>
    /\ health_probes = <<>>
    /\ available_services = <<>>
    /\ futures = <<>>
    /\ all_results = EmptyBag
    /\ ret = "none"
    /\ results_saved = FALSE
    /\ reports_generated = FALSE

InitMonitor == pc = "client_new" /\ InitVars /\ InitCmpVars

SpecMonitor == InitMonitor /\ [][NextMonitor]_vars

----------------------------------------------------------------------------
(* TTSModelTester and TTSComparison.run_comparison for the service idx *)

NumTests == 2           \* _run_synthesis_tests: the two entries of 'tests'

Log(e) == events' = [events EXCEPT ![idx] = Append(@, e)]

(* start_service: os.chdir(self.directory) and 'docker compose up -d'.
   The directory is a relative path: it can be entered from original_dir only. *)
UpOutcomes == {"chdir_raise", "run_raise", "nonzero", "zero"}

SsUp ==
    /\ pc = "ss_up"
    /\ \E o \in UpOutcomes :
          /\ o # "chdir_raise" => cwd = 0
          /\ ssUp' = o
          /\ cwd' = IF o = "run_raise" THEN idx ELSE cwd
          /\ docker' = [docker EXCEPT ![idx] =
                          [up |-> @.up \/ o = "zero",
                           ups |-> @.ups + (IF o \in {"nonzero", "zero"} THEN 1 ELSE 0),
                           downs |-> @.downs]]
          /\ started' = [started EXCEPT ![idx] = IF o = "zero" THEN "none" ELSE "False"]
          /\ pc' = IF o = "zero" THEN "ss_poll" ELSE "rc_after_start"
    /\ pollLog' = <<>>
    /\ startCalls' = [startCalls EXCEPT ![idx] = @ + 1]
    /\ Log("start")
    /\ UNCHANGED <<idx, monOf, objVars, monVars, resource_stats, synth, test_results,
                   models_out, report>>
    /\ UNCHANGED extVars

(* start_service: one round of 'for attempt in range(max_wait // 5)':
   time.sleep(5), then _check_health (True iff GET /health answered 200) *)
PollLimitOffByOne == MaxPolls + 1
PollLimit == MaxPolls

Poll(healthy) ==
    /\ pc = "ss_poll"
    /\ Len(pollLog) < PollLimit
    /\ pollLog' = Append(pollLog, healthy)
    /\ started' = [started EXCEPT ![idx] = IF healthy THEN "True" ELSE "none"]
    /\ pc' = IF healthy THEN "rc_after_start" ELSE "ss_poll"
    /\ UNCHANGED <<idx, cwd, ssUp, docker, startCalls, monOf, objVars, monVars,
                   resource_stats, synth, test_results, models_out, events, report>>

SsPoll ==
    /\ \E healthy \in BOOLEAN : Poll(healthy)
    /\ UNCHANGED extVars

(* start_service: the loop ran out *)
SsTimeout ==
    /\ pc = "ss_poll"
    /\ Len(pollLog) >= PollLimit
    /\ started' = [started EXCEPT ![idx] = "False"]
    /\ pc' = "rc_after_start"
    /\ UNCHANGED <<idx, cwd, ssUp, pollLog, docker, startCalls, monOf, objVars, monVars,
                   resource_stats, synth, test_results, models_out, events, report>>
    /\ UNCHANGED extVars

(* run_tests: _get_health_info and _get_voices_info only read the service *)
RtBegin ==
    /\ pc = "rt_begin"
    /\ synth' = <<>>
    /\ pc' = "rt_synth"
    /\ Log("tests")
    /\ UNCHANGED <<idx, cwd, ssUp, pollLog, started, docker, startCalls, monOf, objVars,
                   monVars, resource_stats, test_results, models_out, report>>
    /\ UNCHANGED extVars

(* _run_synthesis_tests: one test of the battery; a non-200 response or an
   exception is recorded as a failed result *)
SynthOutcomes == {"ok", "http_error", "exception"}

RequestTime == 1        \* end_time - start_time of a request that was answered

SynthResult(o) ==
    IF o = "exception"
    THEN [success |-> FALSE, outcome |-> o]
    ELSE [success |-> o = "ok", outcome |-> o, response_time |-> RequestTime]

RtSynth(outs) ==
    /\ pc = "rt_synth"
    /\ Len(synth) < NumTests
    /\ \E o \in outs : synth' = Append(synth, SynthResult(o))
    /\ UNCHANGED <<pc, idx, cwd, ssUp, pollLog, started, docker, startCalls, monOf, objVars,
                   monVars, resource_stats, test_results, models_out, events, report>>
    /\ UNCHANGED extVars

(* _run_test_script, then the return of run_tests.  A timeout or another
   exception of subprocess.run skips os.chdir(original_dir). *)
ScriptOutcomes == {"absent", "ok", "failed", "timeout", "raise"}

(* run_comparison: after run_tests comes monitor.stop_monitoring() *)
AfterTestsStopServiceFirst == "st_down"
AfterTests == "mon_stop"

RtScript(outs) ==
    /\ pc = "rt_synth"
    /\ Len(synth) = NumTests
    /\ \E o \in outs :
          /\ test_results' = [synthesis |-> synth, test_script |-> o]
          /\ cwd' = IF o \in {"timeout", "raise"} THEN idx ELSE cwd
    /\ pc' = AfterTests
    /\ UNCHANGED <<idx, ssUp, pollLog, started, docker, startCalls, monOf, objVars,
                   monVars, resource_stats, synth, models_out, events, report>>
    /\ UNCHANGED extVars

(* stop_service: os.chdir(self.directory) raises unless the process is in
   original_dir; 'docker compose down' may fail or raise; every exception is
   caught and printed *)
DownOutcomes == {"down_ok", "down_failed", "down_raise"}

(* stop_service returns and run_comparison goes on to record the service:
   'except Exception' takes every outcome o of the chdir and of the command *)
AfterStopServicePropagates(o) ==
    IF o \in {"chdir_raise", "down_raise"} THEN "rc_finally" ELSE "rc_record"
AfterStopService(o) == "rc_record"

StDown(outs) ==
    /\ pc = "st_down"
    /\ IF cwd # 0
       THEN /\ UNCHANGED <<cwd, docker>>
            /\ pc' = AfterStopService("chdir_raise")
       ELSE \E o \in outs :
               /\ cwd' = IF o = "down_raise" THEN idx ELSE cwd
               /\ docker' = [docker EXCEPT ![idx] =
                               [up |-> @.up /\ o # "down_ok",
                                ups |-> @.ups,
                                downs |-> @.downs + (IF o = "down_raise" THEN 0 ELSE 1)]]
               /\ pc' = AfterStopService(o)
    /\ Log("service_stop")
    /\ UNCHANGED <<idx, ssUp, pollLog, started, startCalls, monOf, objVars, monVars,
                   resource_stats, synth, test_results, models_out, report>>
    /\ UNCHANGED extVars

(* run_comparison: the head of 'for model_name, tester in self.models.items()':
   os.chdir(original_dir); monitor = ResourceMonitor(); tester.start_service() *)
LoopNext(probes) ==
    /\ pc = "rc_loop"
    /\ idx < NumServices
    /\ idx' = idx + 1
    /\ cwd' = 0
    /\ \E probe \in probes : NewMonitor(probe)
    /\ pc' = "ss_up"
    /\ UNCHANGED <<ssUp, pollLog, started, docker, startCalls, monOf, resource_stats,
                   synth, test_results, models_out, events, report>>
    /\ UNCHANGED extVars

(* if not tester.start_service(): record failed_to_start; continue.
   The locals of the returned start_service call are dropped here. *)
AfterFailedStartBreak == "rc_finally"
AfterFailedStartFallThrough == "mon_start"
AfterFailedStart == "rc_loop"

StartFailed ==
    /\ pc = "rc_after_start"
    /\ started[idx] = "False"
    /\ models_out' = [models_out EXCEPT ![idx] =
                        [status |-> "failed_to_start",
                         error |-> "No se pudo iniciar el servicio"]]
    /\ pc' = AfterFailedStart
    /\ ssUp' = "none"
    /\ pollLog' = <<>>
    /\ UNCHANGED <<idx, cwd, started, docker, startCalls, monOf, objVars,
                   monVars, resource_stats, synth, test_results, events, report>>
    /\ UNCHANGED extVars

StartOk ==
    /\ pc = "rc_after_start"
    /\ started[idx] = "True"
    /\ pc' = "mon_start"
    /\ ssUp' = "none"
    /\ pollLog' = <<>>
    /\ UNCHANGED <<idx, cwd, started, docker, startCalls, monOf, objVars, monVars,
                   resource_stats, synth, test_results, models_out, events, report>>
    /\ UNCHANGED extVars

(* comparison_data["models"][model_name] = {"status": "completed", ...};
   test_results and resource_stats are not read again before they are reassigned *)
Record ==
    /\ pc = "rc_record"
    /\ models_out' = [models_out EXCEPT ![idx] =
                        [status |-> "completed",
                         test_results |-> test_results,
                         resources |-> resource_stats]]
    /\ pc' = "rc_loop"
    /\ Log("record")
    /\ resource_stats' = EmptyStats
    /\ test_results' = NoTests
    /\ synth' = <<>>
    /\ UNCHANGED <<idx, cwd, ssUp, pollLog, started, docker, startCalls, monOf, objVars,
                   monVars, report>>
    /\ UNCHANGED extVars

(* the loop is exhausted: finally: os.chdir(original_dir) *)
LoopExit ==
    /\ pc = "rc_loop"
    /\ idx = NumServices
    /\ pc' = "rc_finally"
    /\ UNCHANGED <<svcVars, objVars, monVars, resource_stats>>
    /\ UNCHANGED extVars

Finally ==
    /\ pc = "rc_finally"
    /\ cwd' = 0
    /\ pc' = "rc_report"
    /\ UNCHANGED <<idx, ssUp, pollLog, started, docker, startCalls, monOf, objVars,
                   monVars, resource_stats, synth, test_results, models_out, events, report>>
    /\ UNCHANGED extVars

(* report_generator.generate_report(comparison_data); return report_file *)
Report ==
    /\ pc = "rc_report"
    /\ report' = TRUE
    /\ pc' = "rc_done"
    /\ UNCHANGED <<idx, cwd, ssUp, pollLog, started, docker, startCalls, monOf, objVars,
                   monVars, resource_stats, synth, test_results, models_out, events>>
    /\ UNCHANGED extVars

(* the calls run_comparison makes on the monitor of the service idx *)
RunStartMonitoring ==
    /\ StartMonitoring("rt_begin")
    /\ monOf' = [monOf EXCEPT ![idx] = monId]
    /\ Log("sampler_start")
    /\ UNCHANGED <<idx, cwd, ssUp, pollLog, started, docker, startCalls,
                   synth, test_results, models_out, report>>
    /\ UNCHANGED extVars

AfterStopMonitoring == "st_down"

RunStopMonitoring ==
    /\ \/ StopFlag /\ UNCHANGED <<events, extRest>>
       \/ StopJoin /\ UNCHANGED <<events, extVars>>
       \/ StopAggregate(AfterStopMonitoring) /\ Log("sampler_stop") /\ UNCHANGED extVars
    /\ UNCHANGED <<idx, cwd, ssUp, pollLog, started, docker, startCalls, monOf,
                   synth, test_results, models_out, report>>

(* The host of the run_comparison specification: constant load, no nvidia-smi
   (the probe raises), psutil reads that may raise. *)
RunProbes == {"raise"}
RunSynthOutcomes == {"ok", "exception"}
RunScriptOutcomes == {"ok", "timeout"}
RunDownOutcomes == {"down_ok", "down_raise"}

RunThread(t) ==
    /\ \/ ThreadCheck(t, MaxRunSamples)
       \/ ThreadRead(t, CpuIdle \cup {CpuRaise}, MemIdle, GpuIdle)
       \/ ThreadAppend(t)
       \/ ThreadSleep(t)
    /\ UNCHANGED <<pc, svcVars, objVars, resource_stats>>
    /\ UNCHANGED extVars

Next ==
    \/ LoopNext(RunProbes)
    \/ SsUp
    \/ SsPoll
    \/ SsTimeout
    \/ StartFailed
    \/ StartOk
    \/ RunStartMonitoring
    \/ RtBegin
    \/ RtSynth(RunSynthOutcomes)
    \/ RtScript(RunScriptOutcomes)
    \/ RunStopMonitoring
    \/ StDown(RunDownOutcomes)
    \/ Record
    \/ LoopExit
    \/ Finally
    \/ Report
    \/ \E t \in ThreadIds : RunThread(t)

Init == pc = "rc_loop" /\ InitVars /\ InitCmpVars

Spec == Init /\ [][Next]_vars

----------------------------------------------------------------------------
(* Properties *)

AfterLoop == {"rc_finally", "rc_report", "rc_done"}
StatusOf(i) == models_out[i].status
HasEntry(i) == StatusOf(i) # "none"
ThreadGone(t) == threads[t].pc \in {"unborn", "done", "crashed"}
HasStats(st) == DOMAIN st # {}

(* C1: when run_comparison leaves its loop, every configured service has an
   entry; if service k's start_service returned False and every other one
   returned True, the entry of k is the only failed one and all the others
   are 'completed' -- a failed start does not end the loop. *)
C1_FailedStartDoesNotAbort ==
    pc \in AfterLoop =>
        /\ \A i \in Services : started[i] # "none" /\ HasEntry(i)
        /\ \A k \in Services :
              (started[k] = "False" /\ \A j \in Services \ {k} : started[j] = "True")
              => /\ Cardinality({i \in Services : HasEntry(i)}) = NumServices
                 /\ {i \in Services : StatusOf(i) = "failed_to_start"} = {k}
                 /\ {i \in Services : StatusOf(i) = "completed"} = Services \ {k}

C1_Witness ==
    /\ pc = "rc_done"
    /\ \E k \in Services :
          /\ started[k] = "False"
          /\ StatusOf(k) = "failed_to_start"
          /\ k < NumServices
          /\ \A j \in Services \ {k} : started[j] = "True" /\ StatusOf(j) = "completed"

(* C2: stop_monitoring computes the statistics only once every sampling
   thread of the monitor has terminated, and no sample is appended to the
   buffer after they were computed: the returned statistics cover exactly
   the samples in the buffer. *)
StatsCount(st) == IF HasStats(st) THEN st.duration \div DurationFactor ELSE 0

C2_SynchronizeThenAggregate ==
    /\ pc = "mon_agg" => \A t \in ThreadIds : ThreadGone(t)
    /\ pc = "client_done" =>
          /\ \A t \in ThreadIds : ThreadGone(t)
          /\ StatsCount(resource_stats) = Len(data)

C2_Witness ==
    /\ pc = "client_done"
    /\ thread # 0
    /\ threads[thread].pc = "done"
    /\ Len(data) >= 2

(* C3: stop_monitoring on a monitor whose buffer is empty returns the empty
   placeholder (no statistics error), whether the monitor was never started
   or was stopped before its thread appended anything; without a thread
   attribute the join is skipped. *)
C3_EmptyStopReturnsPlaceholder ==
    /\ pc = "mon_join" /\ thread = 0 => JoinReturns
    /\ pc = "client_done" /\ data = <<>> => ~HasStats(resource_stats)

C3_Witness ==
    /\ pc = "client_done"
    /\ data = <<>>
    /\ thread # 0
    /\ threads[thread].pc = "done"
    /\ ~HasStats(resource_stats)

C3_WitnessNeverStarted ==
    pc = "client_done" /\ thread = 0 /\ ~HasStats(resource_stats)

(* C4: while monitoring is active a failed read does not end the sampling
   loop: a sampling thread has terminated only if stop_monitoring has
   cleared the monitoring flag. *)
C4_LoopSurvivesFailedRead ==
    \A t \in ThreadIds : threads[t].pc \in {"done", "crashed"} => ~monitoring

(* C5: in the statistics of a non-empty buffer, min <= mean <= max for cpu
   and memory, and average <= max for GPU utilisation and GPU memory. *)
MeanBetween(m) == m.min * m.avg.den <= m.avg.num /\ m.avg.num <= m.max * m.avg.den

C5_MeanWithinMinMax ==
    HasStats(resource_stats) =>
        /\ MeanBetween(resource_stats.cpu)
        /\ MeanBetween(resource_stats.memory)
        /\ resource_stats.gpu.util_avg.num
              <= resource_stats.gpu.util_max * resource_stats.gpu.util_avg.den
        /\ resource_stats.gpu.memory_avg.num
              <= resource_stats.gpu.memory_max * resource_stats.gpu.memory_avg.den

C5_Witness ==
    /\ pc = "client_done"
    /\ HasStats(resource_stats)
    /\ Len(data) >= 2
    /\ resource_stats.cpu.min < resource_stats.cpu.max
    /\ resource_stats.memory.min < resource_stats.memory.max
    /\ resource_stats.gpu.util_avg.num
          < resource_stats.gpu.util_max * resource_stats.gpu.util_avg.den

(* C6: the duration returned by stop_monitoring is the number of samples
   times the interval at which the loop really produced them (the distance
   between the timestamps of consecutive samples). *)
C6_DurationIsCountTimesInterval ==
    pc = "client_done" /\ Len(data) >= 2 =>
        resource_stats.duration = Len(data) * (data[2].timestamp - data[1].timestamp)

(* C7: when the constructor's nvidia-smi probe returned nonzero or raised,
   the constructor still returned with gpu_available false, every sample
   (buffered or being built) has zero GPU fields, and the GPU aggregates of
   stop_monitoring are zero with available = false. *)
GpuIsZero(r) == r.gpu_util = 0 /\ r.gpu_memory = 0 /\ r.gpu_temp = 0

C7_NoGpuAllZero ==
    probed \in {"nonzero", "raise"} =>
        /\ pc # "client_new"
        /\ ~gpu_available
        /\ \A k \in 1..Len(data) : GpuIsZero(data[k])
        /\ \A t \in ThreadIds : GpuIsZero(threads[t].sample)
        /\ HasStats(resource_stats) =>
              /\ resource_stats.gpu.available = FALSE
              /\ resource_stats.gpu.util_avg.num = 0
              /\ resource_stats.gpu.util_max = 0
              /\ resource_stats.gpu.memory_avg.num = 0
              /\ resource_stats.gpu.memory_max = 0

C7_Witness ==
    /\ probed = "raise"
    /\ pc = "client_done"
    /\ Len(data) >= 2
    /\ HasStats(resource_stats)
    /\ resource_stats.gpu.util_max = 0

(* C8: start_service polls the health endpoint at most 24 times and only
   after a successful start command; it returns True exactly when its last
   poll succeeded, which is the first successful one; it returns False
   without polling when the start command failed, and after 24 failed polls
   otherwise. *)
C8_StartServiceBounded ==
    /\ Len(pollLog) <= MaxPolls
    /\ MaxPolls = 24
    /\ pollLog # <<>> => ssUp = "zero"
    /\ \A k \in 1..(Len(pollLog) - 1) : ~pollLog[k]
    /\ pc = "ss_poll" => \A k \in 1..Len(pollLog) : ~pollLog[k]
    /\ pc = "rc_after_start" =>
          /\ started[idx] \in {"True", "False"}
          /\ started[idx] = "True" <=> (pollLog # <<>> /\ pollLog[Len(pollLog)])
          /\ ssUp # "zero" => started[idx] = "False" /\ pollLog = <<>>
          /\ ssUp = "zero" /\ started[idx] = "False" => Len(pollLog) = MaxPolls

C8_Witness ==
    /\ pc = "rc_after_start"
    /\ ssUp = "zero"
    /\ started[idx] = "False"
    /\ Len(pollLog) = MaxPolls

(* C9: each service moves only along PENDING -> STARTING ->
   (FAILED_TO_START | RUNNING) -> TESTING -> STOPPING -> COMPLETED; once it
   is FAILED_TO_START or COMPLETED nothing more is done for it (no start,
   monitor, test or stop step, no command to the orchestration layer); and
   start_service is called exactly once for it. *)
ServiceState(i) ==
    IF StatusOf(i) = "failed_to_start" THEN "FAILED_TO_START"
    ELSE IF StatusOf(i) = "completed" THEN "COMPLETED"
    ELSE IF i # idx THEN "PENDING"
    ELSE IF pc \in {"ss_up", "ss_poll"} THEN "STARTING"
    ELSE IF pc = "rc_after_start" THEN (IF started[i] = "True" THEN "RUNNING" ELSE "STARTING")
    ELSE IF pc = "mon_start" THEN "RUNNING"
    ELSE IF pc \in {"rt_begin", "rt_synth", "mon_stop", "mon_join", "mon_agg"} THEN "TESTING"
    ELSE IF pc \in {"st_down", "rc_record"} THEN "STOPPING"
    ELSE "LOST"

TerminalStates == {"FAILED_TO_START", "COMPLETED"}

AllowedTransitions ==
    {<<"PENDING", "STARTING">>, <<"STARTING", "FAILED_TO_START">>,
     <<"STARTING", "RUNNING">>, <<"RUNNING", "TESTING">>,
     <<"TESTING", "STOPPING">>, <<"STOPPING", "COMPLETED">>}

C9_Step ==
    \A i \in Services :
        /\ ServiceState(i)' # ServiceState(i)
              => <<ServiceState(i), ServiceState(i)'>> \in AllowedTransitions
        /\ ServiceState(i) \in TerminalStates
              => /\ ServiceState(i)' = ServiceState(i)
                 /\ docker'[i] = docker[i]
                 /\ startCalls'[i] = startCalls[i]
                 /\ monOf'[i] = monOf[i]
                 /\ events'[i] = events[i]
                 /\ models_out'[i] = models_out[i]
        /\ startCalls'[i] <= 1
        /\ ServiceState(i)' = "PENDING" => startCalls'[i] = 0
        /\ ServiceState(i)' \notin {"PENDING", "STARTING"} => startCalls'[i] = 1

C9_ServiceStateMachine == [][C9_Step]_vars

C9_Witness ==
    /\ pc = "rc_done"
    /\ \E i, j \in Services :
          /\ ServiceState(i) = "COMPLETED"
          /\ ServiceState(j) = "FAILED_TO_START"
          /\ startCalls[i] = 1
          /\ startCalls[j] = 1

(* C10: for a service that started, run_comparison takes the steps start,
   sampler start, tests, sampler stop, service stop, record in this order
   and takes no other; the sampler is a monitor used for no other service
   and not started before; its session is active throughout run_tests, and
   no sampler is active while a service is being started or stopped. *)
FullSequence == <<"start", "sampler_start", "tests", "sampler_stop", "service_stop", "record">>
IsPrefix(a, b) == Len(a) <= Len(b) /\ \A k \in 1..Len(a) : a[k] = b[k]
SamplerActive == monitoring \/ \E t \in ThreadIds : ~ThreadGone(t)

C10_StepOrder ==
    /\ \A i \in Services : IsPrefix(events[i], FullSequence)
    /\ \A i \in Services : StatusOf(i) = "completed" => events[i] = FullSequence
    /\ \A i \in Services : StatusOf(i) = "failed_to_start" => events[i] = <<"start">>
    /\ pc \in {"ss_up", "ss_poll", "rc_after_start", "mon_start", "st_down", "rc_record"}
          => ~SamplerActive
    /\ pc = "mon_start" => thread = 0 /\ data = <<>>
    /\ pc \in {"rt_begin", "rt_synth"} =>
          /\ monitoring
          /\ thread # 0
          /\ monOf[idx] = monId
    /\ \A i, j \in Services : i # j /\ monOf[i] # 0 => monOf[i] # monOf[j]

C10_Witness ==
    /\ pc = "rc_done"
    /\ \A i \in Services :
          /\ StatusOf(i) = "completed"
          /\ events[i] = FullSequence
          /\ HasStats(models_out[i].resources)

(* C11: at most one service is active at any point of run_comparison -- active
   meaning brought up by its start command with no stop command issued for it
   since; so the start command of a service is never issued while an earlier
   one is still active, an earlier one whose health polls all failed
   included. *)
Active(i) == docker[i].up /\ docker[i].downs = 0

C11_ServicesExclusive == Cardinality({i \in Services : Active(i)}) <= 1

----------------------------------------------------------------------------
(* test_tts_comparison.py: TTSComparator.run_comprehensive_tests and main *)

NumCmpServices == 3     \* number of entries of SERVICES (after the --services filter)
MaxWorkers == 4         \* ThreadPoolExecutor(max_workers=4)

CmpServices == 1..NumCmpServices
TestKeys == <<"corto", "medio">>    \* the keys of TEST_TEXTS (after the --tests filter)

runVars == <<svcVars, monVars, objVars, resource_stats, copyVars, stop_len, auxVars>>

(* check_service_health: what GET /health did -> the 'status' of the result.
   "200" is a 200 response whose body is empty or a JSON document,
   "200_nonjson" a 200 response whose body is not JSON (response.json()
   raises inside the try), "raise" an exception of requests.get (timeout,
   connection error) *)
HealthOutcomes == {"200", "200_nonjson", "non200", "raise"}
Status200 == {"200", "200_nonjson"}

HealthStatus(o) ==
    IF o = "200" THEN "healthy"
    ELSE IF o = "non200" THEN "unhealthy"
    ELSE "error"

(* check_all_services_health: one service of 'for service_key in SERVICES.keys()' *)
CheckHealth ==
    /\ pc = "cmp_health"
    /\ Len(health_results) < NumCmpServices
    /\ \E o \in HealthOutcomes :
          /\ health_probes' = Append(health_probes, o)
          /\ health_results' = Append(health_results, HealthStatus(o))
    /\ UNCHANGED <<pc, parallel_tests, available_services, futures, all_results, ret,
                   exit_status, interrupts, runVars, cmpOut>>

(* available_services = [service for service, health in health_results.items()
                         if health['status'] == 'healthy'] *)
Available(h) == SelectSeq([i \in 1..Len(h) |-> i], LAMBDA i : h[i] = "healthy")

(* the k-th pair of 'for service_key in available_services:
                        for test_key in TEST_TEXTS.keys()' *)
Total(av) == Len(av) * Len(TestKeys)
PairAt(av, k) == [service |-> av[((k - 1) \div Len(TestKeys)) + 1],
                  test_type |-> TestKeys[((k - 1) % Len(TestKeys)) + 1]]

(* if not available_services: return {'error': ...}; else the mode is chosen *)
SelectAvailable ==
    /\ pc = "cmp_health"
    /\ Len(health_results) = NumCmpServices
    /\ available_services' = Available(health_results)
    /\ IF Available(health_results) = <<>>
       THEN pc' = "cmp_done" /\ ret' = "error"
       ELSE pc' = (IF parallel_tests THEN "cmp_submit" ELSE "cmp_seq") /\ ret' = ret
    /\ UNCHANGED <<parallel_tests, health_results, health_probes, futures, all_results,
                   exit_status, interrupts, runVars, cmpOut>>

(* synthesize_text: a 200 response gives success (the JSON's 'success', True
   by default); a non-200 response and an exception give success False with
   an 'error' *)
CmpOutcomes == {"ok", "unsuccessful", "http_error", "exception"}

SynthesizeText(o) ==
    [success |-> o = "ok",
     error |-> IF o = "http_error" THEN "HTTP"
               ELSE IF o = "exception" THEN "exception"
               ELSE "none"]

(* run_single_test: the result of synthesize_text, updated with the pair *)
RunSingleTest(p, o) ==
    [service |-> p.service, test_type |-> p.test_type,
     success |-> SynthesizeText(o).success, error |-> SynthesizeText(o).error]

NoResult == [service |-> 0, test_type |-> "none", success |-> FALSE, error |-> "none"]

(* parallel mode: executor.submit(self.run_single_test, service_key, test_key);
   futures.append(future) *)
Submit ==
    /\ pc = "cmp_submit"
    /\ Len(futures) < Total(available_services)
    /\ futures' = Append(futures,
                         [pair |-> PairAt(available_services, Len(futures) + 1),
                          state |-> "pending",
                          result |-> NoResult])
    /\ pc' = IF Len(futures) + 1 = Total(available_services) THEN "cmp_collect" ELSE pc
    /\ UNCHANGED <<parallel_tests, health_results, health_probes, available_services,
                   all_results, ret, exit_status, interrupts, runVars, cmpOut>>

(* the pool: a work item is taken from the queue, in the order of submission,
   by one of at most max_workers worker threads *)
Running(fs) == {k \in 1..Len(fs) : fs[k].state = "running"}
WorkerFreeAlways(fs) == TRUE
WorkerFree(fs) == Cardinality(Running(fs)) < MaxWorkers

WorkerStart(k) ==
    /\ futures[k].state = "pending"
    /\ \A j \in 1..(k - 1) : futures[j].state # "pending"
    /\ WorkerFree(futures)
    /\ futures' = [futures EXCEPT ![k].state = "running"]
    /\ UNCHANGED <<pc, parallel_tests, health_results, health_probes, available_services,
                   all_results, ret, exit_status, interrupts, runVars, cmpOut>>

(* the worker's call of run_single_test returns: synthesize_text and
   save_audio_file catch the exceptions of the request and of the file
   system.  With "task_raises" the call ends with an exception raised outside
   those handlers, which the future keeps instead of a result. *)
WorkerFinish(k, outs) ==
    /\ futures[k].state = "running"
    /\ \E o \in outs :
          futures' = IF o = "task_raises"
                     THEN [futures EXCEPT ![k].state = "failed"]
                     ELSE [futures EXCEPT ![k].state = "finished",
                                          ![k].result = RunSingleTest(futures[k].pair, o)]
    /\ UNCHANGED <<pc, parallel_tests, health_results, health_probes, available_services,
                   all_results, ret, exit_status, interrupts, runVars, cmpOut>>

(* all_results.append(result) *)
AppendResultIfSuccess(all, r) == IF r.success THEN all (+) SetToBag({r}) ELSE all
AppendResult(all, r) == all (+) SetToBag({r})

(* for future in as_completed(futures): all_results.append(future.result()) *)
CollectSkipsFailed(k) ==
    /\ pc = "cmp_collect"
    /\ futures[k].state = "finished"
    /\ all_results' = AppendResultIfSuccess(all_results, futures[k].result)
    /\ futures' = [futures EXCEPT ![k].state = "yielded"]
    /\ UNCHANGED <<pc, parallel_tests, health_results, health_probes, available_services,
                   ret, exit_status, interrupts, runVars, cmpOut>>

(* a future that raised ends the whole loop: nothing more is collected *)
CollectRaisePropagates(k) ==
    /\ pc = "cmp_collect"
    /\ futures[k].state \in {"finished", "failed"}
    /\ all_results' = IF futures[k].state = "finished"
                      THEN all_results (+) SetToBag({futures[k].result})
                      ELSE all_results
    /\ futures' = IF futures[k].state = "finished"
                  THEN [futures EXCEPT ![k].state = "yielded"]
                  ELSE [j \in 1..Len(futures) |-> [futures[j] EXCEPT !.state = "yielded"]]
    /\ UNCHANGED <<pc, parallel_tests, health_results, health_probes, available_services,
                   ret, exit_status, interrupts, runVars, cmpOut>>

(* try: result = future.result(); all_results.append(result)
   except Exception: logger.error(...) *)
Collect(k) ==
    /\ pc = "cmp_collect"
    /\ futures[k].state \in {"finished", "failed"}
    /\ all_results' = IF futures[k].state = "finished"
                      THEN AppendResult(all_results, futures[k].result)
                      ELSE all_results
    /\ futures' = [futures EXCEPT ![k].state = "yielded"]
    /\ UNCHANGED <<pc, parallel_tests, health_results, health_probes, available_services,
                   ret, exit_status, interrupts, runVars, cmpOut>>

(* sequential mode: result = self.run_single_test(service_key, test_key);
   all_results.append(result) *)
SeqTest(outs) ==
    /\ pc = "cmp_seq"
    /\ BagCardinality(all_results) < Total(available_services)
    /\ \E o \in outs :
          all_results' = AppendResult(all_results,
              RunSingleTest(PairAt(available_services, BagCardinality(all_results) + 1), o))
    /\ UNCHANGED <<pc, parallel_tests, health_results, health_probes, available_services,
                   futures, ret, exit_status, interrupts, runVars, cmpOut>>

(* every future was yielded (the pool is shut down), or the loops are done:
   the results are analysed, compiled and returned *)
CmpReturn ==
    /\ \/ /\ pc = "cmp_collect"
          /\ \A k \in 1..Len(futures) : futures[k].state = "yielded"
       \/ /\ pc = "cmp_seq"
          /\ BagCardinality(all_results) = Total(available_services)
    /\ ret' = "results"
    /\ results_saved' = TRUE
    /\ \E generate_report \in BOOLEAN : reports_generated' = generate_report
    /\ pc' = "cmp_done"
    /\ UNCHANGED <<parallel_tests, health_results, health_probes, available_services,
                   futures, all_results, exit_status, interrupts, runVars>>

(* main: return 1 if 'error' in results, else 0 *)
ExitCodeAlwaysZero(r) == "0"
ExitCode(r) == IF r = "error" THEN "1" ELSE "0"

CmpMainReturn ==
    /\ pc = "cmp_done"
    /\ exit_status' = ExitCode(ret)
    /\ pc' = "cmp_exited"
    /\ UNCHANGED <<cmpVars, interrupts, runVars>>

(* the requests of the dispatcher: thin responses in the pool, every response
   in the sequential loop *)
PoolOutcomes == {"ok", "exception"}

NextComparator ==
    \/ CheckHealth
    \/ SelectAvailable
    \/ Submit
    \/ \E k \in 1..Len(futures) : WorkerStart(k)
    \/ \E k \in 1..Len(futures) : WorkerFinish(k, PoolOutcomes)
    \/ \E k \in 1..Len(futures) : Collect(k)
    \/ SeqTest(CmpOutcomes)
    \/ CmpReturn
    \/ CmpMainReturn

InitComparator ==
    /\ pc = "cmp_health"
    /\ InitVars
    /\ parallel_tests \in BOOLEAN
    /\ health_results = <<>>
    /\ health_probes = <<>>
    /\ available_services = <<>>
    /\ futures = <<>>
    /\ all_results = EmptyBag
    /\ ret = "none"
    /\ results_saved = FALSE
    /\ reports_generated = FALSE

SpecComparator == InitComparator /\ [][NextComparator]_vars

----------------------------------------------------------------------------
(* The test batteries on their own: run_tests called on one TTSModelTester
   (every response of the service), and run_comprehensive_tests *)

InitTester ==
    /\ pc = "rt_begin"
    /\ idx = 1
    /\ InitRest
    /\ InitCmpVars

NextBattery ==
    \/ RtBegin
    \/ RtSynth(SynthOutcomes)
    \/ RtScript(ScriptOutcomes)
    \/ NextComparator

SpecBattery == (InitTester \/ InitComparator) /\ [][NextBattery]_vars

(* C12: a synthesis request that fails (a non-200 response or an exception)
   is recorded as a failed result of its test and the battery goes on: when
   the battery has finished, every test of it has exactly one recorded
   result, failed exactly if its request failed -- for _run_synthesis_tests
   and for both modes of run_comprehensive_tests. *)
ResultsFor(p) ==
    LET S == {r \in BagToSet(all_results) :
                 r.service = p.service /\ r.test_type = p.test_type}
    IN  BagCardinality([r \in S |-> all_results[r]])

C12_WitnessSequential ==
    /\ pc = "cmp_done"
    /\ ~parallel_tests
    /\ \E r1, r2 \in BagToSet(all_results) :
          /\ r1.error = "HTTP" /\ r1.test_type = "corto"
          /\ r2.success /\ r2.service = r1.service /\ r2.test_type = "medio"

C12_WitnessTester ==
    /\ pc = AfterTests
    /\ test_results.synthesis[1].outcome = "exception"
    /\ test_results.synthesis[2].success

----------------------------------------------------------------------------
(* run_comparison at its last service, every outcome of the service and of
   the orchestration layer: the earlier services failed to start ('docker
   compose up' returned nonzero for each) *)

FailedEntry == [status |-> "failed_to_start", error |-> "No se pudo iniciar el servicio"]

InitLastService ==
    /\ pc = "rc_loop"
    /\ idx = NumServices - 1
    /\ cwd = 0
    /\ ssUp = "none"
    /\ pollLog = <<>>
    /\ started = [i \in Services |-> IF i < NumServices THEN "False" ELSE "none"]
    /\ docker = [i \in Services |-> [up |-> FALSE,
                                     ups |-> IF i < NumServices THEN 1 ELSE 0,
                                     downs |-> 0]]
    /\ startCalls = [i \in Services |-> IF i < NumServices THEN 1 ELSE 0]
    /\ monId = NumServices - 1
    /\ probed = IF NumServices > 1 THEN "raise" ELSE "none"
    /\ monOf = [i \in Services |-> 0]
    /\ monitoring = FALSE
    /\ data = <<>>
    /\ gpu_available = FALSE
    /\ thread = 0
    /\ threads = [t \in ThreadIds |-> NoThread]
    /\ resource_stats = EmptyStats
    /\ synth = <<>>
    /\ test_results = NoTests
    /\ models_out = [i \in Services |-> IF i < NumServices THEN FailedEntry ELSE NoEntry]
    /\ events = [i \in Services |-> IF i < NumServices THEN <<"start">> ELSE <<>>]
    /\ report = FALSE
    /\ exit_status = "none"
    /\ interrupts = <<>>
    /\ stop_len = NotStopped
    /\ InitAux
    /\ cp_model = 0
    /\ cp_status = "none"
    /\ audio_counter = 0
    /\ audio_dir = {}
    /\ copy_log = <<>>
    /\ InitCmpVars

NextLastService ==
    \/ LoopNext(ProbeOutcomes)
    \/ SsUp
    \/ SsPoll
    \/ SsTimeout
    \/ StartFailed
    \/ StartOk
    \/ RunStartMonitoring
    \/ RtBegin
    \/ RtSynth(SynthOutcomes)
    \/ RtScript(ScriptOutcomes)
    \/ RunStopMonitoring
    \/ StDown(DownOutcomes)
    \/ Record
    \/ LoopExit
    \/ Finally
    \/ Report
    \/ \E t \in ThreadIds : RunThread(t)

SpecLastService == InitLastService /\ [][NextLastService]_vars

(* C13: stop_service never propagates an error: from the call of
   stop_service run_comparison always goes on to record the service as
   'completed' and back to the head of its loop, whether the directory change
   raised, the stop command failed or raised, or the command succeeded; the
   stop command is issued unless the directory change or the command's run
   raised. *)
C13_Step ==
    /\ pc = "st_down" =>
          /\ pc' = "rc_record"
          /\ events'[idx] = Append(events[idx], "service_stop")
          /\ \/ docker'[idx].downs = docker[idx].downs + 1
             \/ cwd # 0
             \/ cwd' # 0
    /\ pc = "rc_record" =>
          /\ pc' = "rc_loop"
          /\ StatusOf(idx)' = "completed"

C13_WitnessChdirRaised ==
    /\ pc = "rc_loop"
    /\ idx = NumServices
    /\ StatusOf(idx) = "completed"
    /\ models_out[idx].test_results.test_script = "timeout"
    /\ docker[idx].up
    /\ docker[idx].downs = 0

C13_WitnessCommandRaised ==
    /\ pc = "rc_loop"
    /\ idx = NumServices
    /\ StatusOf(idx) = "completed"
    /\ models_out[idx].test_results.test_script = "ok"
    /\ docker[idx].up
    /\ docker[idx].downs = 0

----------------------------------------------------------------------------
(* main and the user interrupt: SIGINT raises KeyboardInterrupt in the main
   thread.  No handler of run_comparison, start_service, run_tests or
   stop_service takes it ('except Exception' does not), so it leaves the loop
   through 'finally: os.chdir(original_dir)' and reaches main's handler --
   unless it is raised inside a bare 'except:', as in _check_health, where it
   is taken for a failed health check. *)

MaxInterrupts == 1      \* interrupts the user sends during one run

InTry == {"rc_loop", "ss_up", "ss_poll", "rc_after_start", "mon_start", "rt_begin",
          "rt_synth", "mon_stop", "mon_join", "mon_agg", "st_down", "rc_record"}

Processed == {i \in Services : HasEntry(i)}

Signal(swallowed) ==
    interrupts' = Append(interrupts, [at |-> pc, service |-> idx,
                                      processed |-> Cardinality(Processed),
                                      swallowed |-> swallowed])

(* run_comparison: KeyboardInterrupt inside the try block *)
Interrupt ==
    /\ pc \in InTry
    /\ Len(interrupts) < MaxInterrupts
    /\ Signal(FALSE)
    /\ cwd' = 0
    /\ pc' = "main_interrupted"
    /\ UNCHANGED <<idx, ssUp, pollLog, started, docker, startCalls, monOf, objVars,
                   monVars, resource_stats, synth, test_results, models_out, events,
                   report, exit_status, copyVars, cmpVars, stop_len, auxVars>>

(* _check_health: KeyboardInterrupt during requests.get; 'except: return False' *)
InterruptInHealthCheck ==
    /\ Len(interrupts) < MaxInterrupts
    /\ Signal(TRUE)
    /\ Poll(FALSE)
    /\ UNCHANGED <<exit_status, copyVars, cmpVars, stop_len, auxVars>>

(* main: except KeyboardInterrupt: print; sys.exit(1).  The interpreter joins
   the threads that are not daemons before the process exits. *)
ExitJoinsThreads == \A t \in ThreadIds : ThreadGone(t)

MainInterrupted ==
    /\ pc = "main_interrupted"
    /\ ExitJoinsThreads
    /\ exit_status' = "1"
    /\ pc' = "exited"
    /\ UNCHANGED <<svcVars, monVars, objVars, resource_stats, interrupts, copyVars, cmpVars, stop_len, auxVars>>

(* main: run_comparison returned; the report is opened; exit status 0 *)
MainReturn ==
    /\ pc = "rc_done"
    /\ exit_status' = "0"
    /\ pc' = "exited"
    /\ UNCHANGED <<svcVars, monVars, objVars, resource_stats, interrupts, copyVars, cmpVars, stop_len, auxVars>>

NextInterrupt ==
    \/ NextLastService
    \/ Interrupt
    \/ InterruptInHealthCheck
    \/ MainInterrupted
    \/ MainReturn

SpecInterrupt == InitLastService /\ [][NextInterrupt]_vars

(* C14: a user interrupt raised in run_comparison while a service is active
   leads to the stop command of that service before the process exits: when
   the process has exited, the service that was being processed at the
   interrupt is not left active. *)
C14_InterruptTearsDown ==
    \A k \in 1..Len(interrupts) :
        (/\ exit_status # "none"
         /\ ~interrupts[k].swallowed
         /\ interrupts[k].service \in Services)
        => ~Active(interrupts[k].service)

(* C15: if a user interrupt arrived before run_comparison had processed every
   configured service, generate_report is not run: no HTML report, no JSON
   dump, no copied audio file. *)
C15_NoReportAfterInterrupt ==
    (\E k \in 1..Len(interrupts) : interrupts[k].processed < NumServices) => ~report

C15_PropagatedInterruptNoReport ==
    (\E k \in 1..Len(interrupts) :
        ~interrupts[k].swallowed /\ interrupts[k].processed < NumServices) => ~report

----------------------------------------------------------------------------
(* ReportGenerator._copy_audio_files.  File and model names are sequences of
   characters, so that replace, lower and the :02d format are computed. *)

MaxAudio == 3           \* audio_info entries in one comparison_data

UpperCase == <<"A", "B", "C", "D", "E", "F", "G", "H", "I", "J", "K", "L", "M", "N", "O", "P", "Q", "R", "S", "T", "U", "V", "W", "X", "Y", "Z">>
LowerCase == <<"a", "b", "c", "d", "e", "f", "g", "h", "i", "j", "k", "l", "m", "n", "o", "p", "q", "r", "s", "t", "u", "v", "w", "x", "y", "z">>
Digits == <<"0", "1", "2", "3", "4", "5", "6", "7", "8", "9">>

(* str.lower, on the letters A-Z *)
Lower(c) ==
    IF \E k \in 1..Len(UpperCase) : UpperCase[k] = c
    THEN LowerCase[CHOOSE k \in 1..Len(UpperCase) : UpperCase[k] = c]
    ELSE c
StrLower(s) == [i \in 1..Len(s) |-> Lower(s[i])]

(* str.replace of one character by another *)
StrReplace(s, old, new) == [i \in 1..Len(s) |-> IF s[i] = old THEN new ELSE s[i]]

(* f"{n:02d}": the decimal digits of n, padded with zeros on the left to two *)
RECURSIVE Decimal(_)
Decimal(n) == IF n < 10 THEN <<Digits[n + 1]>> ELSE Decimal(n \div 10) \o <<Digits[(n % 10) + 1]>>
Format02d(n) == IF Len(Decimal(n)) < 2 THEN <<"0">> \o Decimal(n) ELSE Decimal(n)

(* model_safe = model_name.replace(' ', '_').replace('-', '_').lower() *)
ModelSafe(model_name) == StrLower(StrReplace(StrReplace(model_name, " ", "_"), "-", "_"))

(* dest_filename = f"{audio_counter:02d}_{model_safe}_{test_name}.wav" *)
DestFilenameNoCounter(counter, model_name, test_name) ==
    <<"0", "0", "_">> \o ModelSafe(model_name) \o <<"_">> \o test_name
        \o <<".", "w", "a", "v">>
DestFilename(counter, model_name, test_name) ==
    Format02d(counter) \o <<"_">> \o ModelSafe(model_name) \o <<"_">> \o test_name
        \o <<".", "w", "a", "v">>

(* the keys of TTSComparison.models, in order, and the names of the tests of
   _run_synthesis_tests *)
ModelNames == <<<<"A", "z", "u", "r", "e", " ", "T", "T", "S">>,
                <<"F", "5", "-", "T", "T", "S">>,
                <<"K", "o", "k", "o", "r", "o", " ", "T", "T", "S">>,
                <<"X", "T", "T", "S", "-", "v", "2">>>>
TestNames == {<<"s", "y", "n", "t", "h", "e", "s", "i", "s", "_", "b", "a", "s", "i", "c">>,
              <<"s", "y", "n", "t", "h", "e", "s", "i", "s", "_", "l", "o", "n", "g">>}

(* an audio_info entry: its source file is missing, or exists and is copied,
   or exists and shutil.copy2 raises *)
FileStates == {"missing", "copied", "copy_raises"}
NoName == <<>>

(* audio_counter += 1, for an entry whose source file exists *)
CounterAfter(counter, f) == IF f = "missing" THEN counter ELSE counter + 1

(* for model_name, model_data in ...items(): the next model; one whose status
   is not 'completed' is skipped *)
CopyNextModel ==
    /\ pc = "rep_copy"
    /\ cp_model < NumServices
    /\ cp_model' = cp_model + 1
    /\ \E st \in {"completed", "failed_to_start"} : cp_status' = st
    /\ UNCHANGED <<pc, audio_counter, audio_dir, copy_log, svcVars, monVars, objVars,
                   resource_stats, exit_status, interrupts, cmpVars, stop_len, auxVars>>

(* for audio_info in audio_files: one entry of the model; shutil.copy2
   replaces a file of the same name *)
CopyAudio ==
    /\ pc = "rep_copy"
    /\ cp_model >= 1
    /\ cp_status = "completed"
    /\ Len(copy_log) < MaxAudio
    /\ \E test \in TestNames, f \in FileStates :
          LET counter == CounterAfter(audio_counter, f)
              dest == DestFilename(counter, ModelNames[cp_model], test)
          IN  /\ audio_counter' = counter
              /\ audio_dir' = IF f = "copied"
                              THEN {e \in audio_dir : e.name # dest}
                                      \cup {[name |-> dest, source |-> Len(copy_log) + 1]}
                              ELSE audio_dir
              /\ copy_log' = Append(copy_log,
                                    [model |-> cp_model, test |-> test, file |-> f,
                                     copied_file |-> IF f = "copied" THEN dest ELSE NoName])
    /\ UNCHANGED <<pc, cp_model, cp_status, svcVars, monVars, objVars,
                   resource_stats, exit_status, interrupts, cmpVars, stop_len, auxVars>>

(* the loops are exhausted *)
CopyDone ==
    /\ pc = "rep_copy"
    /\ cp_model = NumServices
    /\ pc' = "rep_copied"
    /\ UNCHANGED <<copyVars, svcVars, monVars, objVars, resource_stats, exit_status,
                   interrupts, cmpVars, stop_len, auxVars>>

NextCopy ==
    \/ CopyNextModel
    \/ CopyAudio
    \/ CopyDone

InitCopy == pc = "rep_copy" /\ InitVars /\ InitCmpVars

SpecCopy == InitCopy /\ [][NextCopy]_vars

(* C16: within one report any two copied artifacts have different destination
   names; a name is the two-digit sequence number of the artifact among the
   artifacts whose source exists, the service name in lower case with '_' for
   ' ' and '-', the test name and '.wav', so it depends on nothing but the
   artifacts and their order; the first artifacts of two services for the
   basic test are 01_azure_tts_synthesis_basic.wav and
   02_f5_tts_synthesis_basic.wav; and no two sequence prefixes up to
   CounterRange can make two names equal. *)
CounterRange == 120

Copied == {k \in 1..Len(copy_log) : copy_log[k].file = "copied"}
Rank(k) == Cardinality({j \in 1..k : copy_log[j].file # "missing"})
IsPrefixOf(a, b) == Len(a) <= Len(b) /\ \A i \in 1..Len(a) : a[i] = b[i]
SeqPrefix(n) == Format02d(n) \o <<"_">>
BasicTest == <<"s", "y", "n", "t", "h", "e", "s", "i", "s", "_", "b", "a", "s", "i", "c">>

C16_NamingCollisionFreeDeterministic ==
    /\ \A k, l \in Copied : k # l => copy_log[k].copied_file # copy_log[l].copied_file
    /\ Cardinality(audio_dir) = Cardinality(Copied)
    /\ \A k \in Copied : [name |-> copy_log[k].copied_file, source |-> k] \in audio_dir
    /\ \A k \in Copied :
          copy_log[k].copied_file =
              DestFilename(Rank(k), ModelNames[copy_log[k].model], copy_log[k].test)
    /\ \A k \in Copied :
          LET n == copy_log[k].copied_file IN
          /\ SubSeq(n, Len(n) - 3, Len(n)) = <<".", "w", "a", "v">>
          /\ n[1] \in Range(Digits) /\ n[2] \in Range(Digits) /\ n[3] = "_"
          /\ \A i \in 1..Len(n) : n[i] \notin Range(UpperCase) \cup {" ", "-"}
    /\ (/\ Len(copy_log) = 2
        /\ Copied = {1, 2}
        /\ copy_log[1].model = 1 /\ copy_log[1].test = BasicTest
        /\ copy_log[2].model = 2 /\ copy_log[2].test = BasicTest)
       => /\ copy_log[1].copied_file = <<"0", "1", "_", "a", "z", "u", "r", "e", "_", "t", "t", "s", "_", "s", "y", "n", "t", "h", "e", "s", "i", "s", "_", "b", "a", "s", "i", "c", ".", "w", "a", "v">>
          /\ copy_log[2].copied_file = <<"0", "2", "_", "f", "5", "_", "t", "t", "s", "_", "s", "y", "n", "t", "h", "e", "s", "i", "s", "_", "b", "a", "s", "i", "c", ".", "w", "a", "v">>
    /\ cp_model = 0 =>
          \A a, b \in 1..CounterRange :
              a # b => ~IsPrefixOf(SeqPrefix(a), SeqPrefix(b))

C16_Witness ==
    /\ pc = "rep_copied"
    /\ Len(copy_log) = 3
    /\ copy_log[1].model = 1 /\ copy_log[1].file = "copied" /\ copy_log[1].test = BasicTest
    /\ copy_log[2].model = 1 /\ copy_log[2].file = "missing"
    /\ copy_log[3].model = 2 /\ copy_log[3].file = "copied" /\ copy_log[3].test = BasicTest
    /\ copy_log[3].copied_file = <<"0", "2", "_", "f", "5", "_", "t", "t", "s", "_", "s", "y", "n", "t", "h", "e", "s", "i", "s", "_", "b", "a", "s", "i", "c", ".", "w", "a", "v">>
    /\ Cardinality(audio_dir) = 2

(* C17: end to end, for a service that was started, answered /health with
   200 and answered both synthesis requests with 200: when the run is over
   its entry is 'completed', its synthesis results are successful with a
   positive measured time, and its resource statistics are present (not the
   empty placeholder). *)
AllSynthOk(e) == \A k \in 1..NumTests : e.test_results.synthesis[k].outcome = "ok"

C17_EndToEnd ==
    pc = "rc_done" =>
        \A i \in Services :
            started[i] = "True" =>
                /\ StatusOf(i) = "completed"
                /\ AllSynthOk(models_out[i]) =>
                      /\ \A k \in 1..NumTests :
                            /\ models_out[i].test_results.synthesis[k].success
                            /\ models_out[i].test_results.synthesis[k].response_time > 0
                      /\ HasStats(models_out[i].resources)

C17_EndToEndButStats ==
    pc = "rc_done" =>
        \A i \in Services :
            started[i] = "True" =>
                /\ StatusOf(i) = "completed"
                /\ AllSynthOk(models_out[i]) =>
                      \A k \in 1..NumTests :
                            /\ models_out[i].test_results.synthesis[k].success
                            /\ models_out[i].test_results.synthesis[k].response_time > 0

(* C18: in the parallel mode of run_comprehensive_tests the pool is bounded:
   at no time are more than MaxWorkers (4) run_single_test calls being
   executed, however many (service, test) pairs were submitted. *)
C18_PoolBounded ==
    parallel_tests => Cardinality(Running(futures)) <= MaxWorkers

(* The pool is full while a submitted pair is still waiting for a worker. *)
C18_Witness ==
    /\ parallel_tests
    /\ Len(futures) > MaxWorkers
    /\ Cardinality(Running(futures)) = MaxWorkers
    /\ \E k \in 1..Len(futures) : futures[k].state = "pending"

(* C19: a service is treated as healthy if and only if GET /health returned
   status 200 (a non-200 response and an exception mean not healthy), and
   run_comprehensive_tests sends synthesis requests only to services whose
   probe was healthy: no submitted pair and no recorded result belongs to a
   service whose probe was non-200 or raised. *)
Dispatched ==
    {futures[k].pair.service : k \in 1..Len(futures)}
        \cup {r.service : r \in BagToSet(all_results)}

C19_HealthyIff200 ==
    /\ \A s \in CmpServices :
          s <= Len(health_results) =>
              (health_results[s] = "healthy" <=> health_probes[s] \in Status200)
    /\ \A s \in Dispatched : health_probes[s] \in Status200

(* the same without the 'if' direction: no service whose probe was not a
   200 response is treated as healthy, and only services treated as healthy
   are sent requests *)
C19_OnlyHealthyDispatched ==
    /\ \A s \in CmpServices :
          s <= Len(health_results) =>
              (health_results[s] = "healthy" => health_probes[s] \in Status200)
    /\ \A s \in Dispatched : health_results[s] = "healthy"

----------------------------------------------------------------------------
(* The ResourceMonitor client under fair scheduling, on an idle host whose
   reads may fail: the sampler thread is scheduled again and again, and the
   main thread goes on inside stop_monitoring when it can (the join returns
   once the thread is over). *)
SamplerThread(t) ==
    /\ \/ ThreadCheck(t, MaxSamples)
       \/ ThreadRead(t, CpuIdle \cup {CpuRaise}, MemIdle \cup {MemRaise},
                     GpuIdle \cup GpuFailures)
       \/ ThreadAppend(t)
       \/ ThreadSleep(t)
    /\ UNCHANGED <<pc, svcVars, objVars, resource_stats>>
    /\ UNCHANGED extVars

SamplerStopJoin == StopJoin /\ UNCHANGED <<svcVars, extVars>>
SamplerStopAggregate == StopAggregate("client_done") /\ UNCHANGED <<svcVars, extVars>>

NextSampler ==
    \/ ClientNew
    \/ ClientStart
    \/ ClientStop
    \/ StartMonitoring("client") /\ UNCHANGED <<svcVars, extVars>>
    \/ StopFlag /\ UNCHANGED <<svcVars, extRest>>
    \/ SamplerStopJoin
    \/ SamplerStopAggregate
    \/ \E t \in ThreadIds : SamplerThread(t)

SpecMonitorFair ==
    /\ InitMonitor
    /\ [][NextSampler]_vars
    /\ \A t \in ThreadIds : WF_vars(SamplerThread(t))
    /\ WF_vars(SamplerStopJoin)
    /\ WF_vars(SamplerStopAggregate)

FlagCleared == stop_len # NotStopped

C20_AtMostOneFurther == FlagCleared => Len(data) \in {stop_len, stop_len + 1}

C20_NoNewIteration ==
    \A t \in ThreadIds :
        (~monitoring /\ threads[t].pc = "loop") => threads'[t].pc \in {"loop", "done"}

C20_Joined == (pc \in {"mon_agg", "client_done"} /\ thread # 0) => Terminated(thread)

C20_Included == pc = "client_done" => resource_stats = Aggregate(data, gpu_available)

(* C20: stop_monitoring waits for the sample in flight: once it has cleared
   the flag the thread appends at most one further sample and begins no new
   iteration, the join returns only when the thread is over, the returned
   statistics are those of the whole buffer (that sample included), and under
   fair scheduling the thread ends and stop_monitoring returns. *)
C20_StopWaitsForInFlightSample ==
    /\ [](C20_AtMostOneFurther /\ C20_Joined /\ C20_Included)
    /\ [][C20_NoNewIteration]_vars
    /\ (pc = "mon_join" ~> pc = "client_done")

(* stop_monitoring returned statistics that include a sample appended after
   the flag was cleared *)
C20_Witness ==
    /\ pc = "client_done"
    /\ stop_len >= 1
    /\ Len(data) = stop_len + 1
    /\ resource_stats = FullStats(data, gpu_available)

----------------------------------------------------------------------------
C21_Step == monId' = monId => (gpu_available' = gpu_available /\ probed' = probed)

(* C21: GPU availability is a one-shot probe: gpu_available is what the
   probe run by the constructor gave, and as long as the monitor object is the
   same, no step (start_monitoring, an iteration of the loop with a failing or
   a succeeding GPU query, stop_monitoring) changes it or runs the probe
   again. *)
C21_GpuProbeOneShot ==
    /\ [](monId > 0 => gpu_available = CheckGpu(probed))
    /\ [][C21_Step]_vars

(* a session on a host with a GPU, stopped, in which one query failed (zero
   fields) and another one succeeded *)
C21_Witness ==
    /\ pc = "client_done"
    /\ gpu_available
    /\ \E i \in 1..Len(data) : data[i].gpu_util = 0
    /\ \E i \in 1..Len(data) : data[i].gpu_util > 0

----------------------------------------------------------------------------
(* TTSModelTester._run_synthesis_tests with the debug_audio directory of the
   service: each request takes some seconds, the service may drop one WAV file
   while it answers, and _capture_audio_files picks files by their mtime. *)

RecentWindow == 30      \* _capture_audio_files: current_time - file_mtime < 30
MaxCaptured == 2        \* _capture_audio_files: recent_files[:2]

Elapsed == {1, 29, 30}                              \* seconds one request takes
CapOutcomes == {"ok", "http_error", "exception"}    \* what requests.post did
LeftOver == [id |-> 0, mtime |-> 0 - RecentWindow]  \* a file of an earlier run

Recent(files, t) == {f \in files : t - f.mtime < RecentWindow}

(* recent_files.sort(key=os.path.getmtime, reverse=True) *)
RECURSIVE SortByMtimeDesc(_)
SortByMtimeDesc(files) ==
    IF files = {} THEN <<>>
    ELSE LET m == CHOOSE f \in files : \A g \in files : g.mtime <= f.mtime
         IN <<m>> \o SortByMtimeDesc(files \ {m})

FirstN(s, n) == SubSeq(s, 1, IF Len(s) < n THEN Len(s) ELSE n)

CaptureAudioFiles(files, t) == FirstN(SortByMtimeDesc(Recent(files, t)), MaxCaptured)

(* one iteration of 'for test in tests' *)
SynthesisTest ==
    /\ pc = "cap_tests"
    /\ Len(results) < NumTests
    /\ \E o \in CapOutcomes, d \in Elapsed, wrote \in BOOLEAN :
          LET t == now + d
              k == Len(results) + 1
              files == IF wrote THEN debug_audio \cup {[id |-> k, mtime |-> t]}
                       ELSE debug_audio
              captured == CaptureAudioFiles(files, t)
          IN /\ now' = t
             /\ debug_audio' = files
             /\ results' = Append(results,
                   IF o = "ok"
                   THEN [test |-> k, success |-> TRUE, audio_files |-> captured]
                   ELSE [test |-> k, success |-> FALSE, audio_files |-> <<>>])
             /\ audio_files' =
                   IF o = "ok"
                   THEN audio_files \o [i \in 1..Len(captured) |->
                                           [test |-> k, file |-> captured[i]]]
                   ELSE audio_files
    /\ UNCHANGED <<pc, svcVars, monVars, objVars, resource_stats, exit_status, interrupts,
                   copyVars, cmpVars, stop_len, oracle, setupVars>>

(* return results *)
SynthesisDone ==
    /\ pc = "cap_tests"
    /\ Len(results) = NumTests
    /\ pc' = "cap_done"
    /\ UNCHANGED <<svcVars, monVars, objVars, resource_stats, extVars>>

NextCapture == SynthesisTest \/ SynthesisDone

InitCapture ==
    /\ pc = "cap_tests"
    /\ idx = 0
    /\ cwd = 0
    /\ ssUp = "none"
    /\ pollLog = <<>>
    /\ started = [i \in Services |-> "none"]
    /\ docker = [i \in Services |-> [up |-> FALSE, ups |-> 0, downs |-> 0]]
    /\ startCalls = [i \in Services |-> 0]
    /\ monId = 0
    /\ probed = "none"
    /\ monOf = [i \in Services |-> 0]
    /\ monitoring = FALSE
    /\ data = <<>>
    /\ gpu_available = FALSE
    /\ thread = 0
    /\ threads = [t \in ThreadIds |-> NoThread]
    /\ resource_stats = EmptyStats
    /\ synth = <<>>
    /\ test_results = NoTests
    /\ models_out = [i \in Services |-> NoEntry]
    /\ events = [i \in Services |-> <<>>]
    /\ report = FALSE
    /\ exit_status = "none"
    /\ interrupts = <<>>
    /\ cp_model = 0
    /\ cp_status = "none"
    /\ audio_counter = 0
    /\ audio_dir = {}
    /\ copy_log = <<>>
    /\ stop_len = NotStopped
    /\ InitCmpVars
    /\ now = 0
    /\ debug_audio \in {{}, {LeftOver}}
    /\ results = <<>>
    /\ audio_files = <<>>
    /\ oracle = <<>>
    /\ InitSetupVars

SpecCapture == InitCapture /\ [][NextCapture]_vars

TestsOf(f) ==
    {audio_files[i].test : i \in {j \in 1..Len(audio_files) : audio_files[j].file = f}}
        \cup {results[k].test : k \in {j \in 1..Len(results) :
                                     \E i \in 1..Len(results[j].audio_files) :
                                         results[j].audio_files[i] = f}}

(* C22: each captured file is associated with one synthesis test: within one
   run of the battery no file is recorded, in self.audio_files or in the
   audio_files of the results, for two different tests. *)
C22_ArtifactOfOneTest == \A f \in debug_audio : Cardinality(TestsOf(f)) <= 1

----------------------------------------------------------------------------
(* run_comprehensive_tests in its two modes on the same input: the services
   found healthy, the test table, and what each request will do (oracle, one
   entry per (service, test) pair in the order of the nested loops). *)

MaxHealthy == 2         \* services found healthy by the health check

DispatchOutcomes == {"ok", "unsuccessful", "exception"}

HealthyFirst(h) == [s \in CmpServices |-> IF s <= h THEN "200" ELSE "non200"]

InitHealthChecked ==
    /\ pc = "cmp_health"
    /\ idx = 0
    /\ cwd = 0
    /\ ssUp = "none"
    /\ pollLog = <<>>
    /\ started = [i \in Services |-> "none"]
    /\ docker = [i \in Services |-> [up |-> FALSE, ups |-> 0, downs |-> 0]]
    /\ startCalls = [i \in Services |-> 0]
    /\ monId = 0
    /\ probed = "none"
    /\ monOf = [i \in Services |-> 0]
    /\ monitoring = FALSE
    /\ data = <<>>
    /\ gpu_available = FALSE
    /\ thread = 0
    /\ threads = [t \in ThreadIds |-> NoThread]
    /\ resource_stats = EmptyStats
    /\ synth = <<>>
    /\ test_results = NoTests
    /\ models_out = [i \in Services |-> NoEntry]
    /\ events = [i \in Services |-> <<>>]
    /\ report = FALSE
    /\ exit_status = "none"
    /\ interrupts = <<>>
    /\ cp_model = 0
    /\ cp_status = "none"
    /\ audio_counter = 0
    /\ audio_dir = {}
    /\ copy_log = <<>>
    /\ stop_len = NotStopped
    /\ now = 0
    /\ debug_audio = {}
    /\ results = <<>>
    /\ audio_files = <<>>
    /\ InitSetupVars
    /\ \E h \in 1..MaxHealthy :
          /\ h <= NumCmpServices
          /\ health_probes = HealthyFirst(h)
          /\ health_results = [s \in CmpServices |-> HealthStatus(HealthyFirst(h)[s])]
    /\ available_services = <<>>
    /\ futures = <<>>
    /\ all_results = EmptyBag
    /\ ret = "none"
    /\ results_saved = FALSE
    /\ reports_generated = FALSE

InitDispatch ==
    /\ InitHealthChecked
    /\ parallel_tests \in BOOLEAN
    /\ oracle \in [1..Total(Available(health_results)) -> DispatchOutcomes]

NextDispatch ==
    \/ SelectAvailable
    \/ Submit
    \/ \E k \in 1..Len(futures) : WorkerStart(k)
    \/ \E k \in 1..Len(futures) : WorkerFinish(k, {oracle[k]})
    \/ \E k \in 1..Len(futures) : Collect(k)
    \/ SeqTest({oracle[BagCardinality(all_results) + 1]})
    \/ CmpReturn

SpecDispatch == InitDispatch /\ [][NextDispatch]_vars

Summary(r) == [service |-> r.service, test_type |-> r.test_type, success |-> r.success]

Summaries(all) == {Summary(r) : r \in BagToSet(all)}

ExpectedSummaries ==
    {Summary(RunSingleTest(PairAt(available_services, k), oracle[k])) :
        k \in 1..Total(available_services)}

(* C23: the parallel mode does not change the outcome set: for the same
   healthy services, test table and per-request outcomes, the results
   run_comprehensive_tests has collected when it returns are, as a multiset of
   (service, test, success), the same in the parallel mode (in every
   interleaving of the workers) as in the sequential mode: exactly one result
   per (service, test) pair, with the success of that pair's request. *)
C23_ParallelSameResults ==
    ret = "results" =>
        /\ BagCardinality(all_results) = Total(available_services)
        /\ \A r \in BagToSet(all_results) : CopiesIn(r, all_results) = 1
        /\ Summaries(all_results) = ExpectedSummaries
        /\ Cardinality(Summaries(all_results)) = Total(available_services)

(* the parallel mode returned more results than the pool has workers, some of
   them failed *)
C23_Witness ==
    /\ parallel_tests
    /\ ret = "results"
    /\ BagCardinality(all_results) = Len(futures)
    /\ Len(futures) >= 4
    /\ \E r \in BagToSet(all_results) : r.success
    /\ \E r \in BagToSet(all_results) : ~r.success

C23_WitnessSequential ==
    /\ ~parallel_tests
    /\ ret = "results"
    /\ BagCardinality(all_results) >= 4
    /\ \E r \in BagToSet(all_results) : ~r.success

----------------------------------------------------------------------------
MovedOn(i) == models_out[i].status # "none"

(* C24: every service whose start command was issued successfully has its
   stop command issued in its own directory before run_comparison records
   the service and moves on, whatever happened in between. *)
C24_StartedServiceStopped ==
    \A i \in Services : (MovedOn(i) /\ docker[i].up) => docker[i].downs > 0

C25_Step == pc \in {"ss_up", "ss_poll", "rt_synth", "st_down"} => cwd' = cwd

(* C25: working-directory frame: every step of start_service, of
   _run_test_script and of stop_service leaves the process working directory
   as it was on entry, on the paths where the subprocess call fails, times out
   or raises as well. *)
C25_WorkingDirectoryFrame == [][C25_Step]_vars

----------------------------------------------------------------------------
LeftTestPhase == pc \in {"rc_finally", "rc_report", "rc_done", "main_interrupted", "exited"}

(* C26: the sampler's thread never outlives its session: once control has
   left the loop of run_comparison (by its normal end or by a user interrupt
   that main handles), every thread that was started is over or the
   monitoring flag is cleared, so that the thread ends at its next check and
   the process can exit. *)
C26_SamplerEndsWithSession ==
    LeftTestPhase => \A t \in ThreadIds : ThreadGone(t) \/ ~monitoring

----------------------------------------------------------------------------
(* A client that calls start_monitoring and stop_monitoring on one
   ResourceMonitor in any order: start twice in a row, stop without start,
   restart after a stop.  The host is idle and its reads succeed. *)

ClientStartAgain ==
    /\ pc = "client"
    /\ \E t \in ThreadIds : threads[t].pc = "unborn"
    /\ pc' = "mon_start"
    /\ UNCHANGED <<svcVars, monVars, objVars, resource_stats>>
    /\ UNCHANGED extVars

RestartThread(t) ==
    /\ \/ ThreadCheck(t, MaxRunSamples)
       \/ ThreadRead(t, CpuIdle, MemIdle, GpuIdle)
       \/ ThreadAppend(t)
       \/ ThreadSleep(t)
    /\ UNCHANGED <<pc, svcVars, objVars, resource_stats>>
    /\ UNCHANGED extVars

NextRestart ==
    \/ ClientNew
    \/ ClientStartAgain
    \/ ClientStop
    \/ StartMonitoring("client") /\ UNCHANGED <<svcVars, extVars>>
    \/ StopFlag /\ UNCHANGED <<svcVars, extRest>>
    \/ StopJoin /\ UNCHANGED <<svcVars, extVars>>
    \/ StopAggregate("client") /\ UNCHANGED <<svcVars, extVars>>
    \/ \E t \in ThreadIds : RestartThread(t)

SpecRestart == InitMonitor /\ [][NextRestart]_vars

Alive(t) == threads[t].pc \in {"loop", "read", "append", "sleep"}

(* C27: for any sequence of start_monitoring and stop_monitoring calls on one
   monitor, at most one sampling thread is alive at any time, and when
   stop_monitoring has returned (and start was not called again) no thread of
   the monitor is alive. *)
C27_OneSamplingThread ==
    /\ Cardinality({t \in ThreadIds : Alive(t)}) <= 1
    /\ (pc = "client" /\ ~monitoring) => \A t \in ThreadIds : ~Alive(t)

----------------------------------------------------------------------------
(* The parallel mode of run_comprehensive_tests with tasks that may raise *)

PoolTaskOutcomes == {"ok", "exception", "task_raises"}

InitPool == InitHealthChecked /\ parallel_tests = TRUE /\ oracle = <<>>

NextPool ==
    \/ SelectAvailable
    \/ Submit
    \/ \E k \in 1..Len(futures) : WorkerStart(k)
    \/ \E k \in 1..Len(futures) : WorkerFinish(k, PoolTaskOutcomes)
    \/ \E k \in 1..Len(futures) : Collect(k)
    \/ CmpReturn

SpecPool == InitPool /\ [][NextPool]_vars

Raised(k) == futures[k].state \in {"failed", "yielded"} /\ futures[k].result = NoResult

WorkerStep(k) ==
    /\ k <= Len(futures')
    /\ futures[k].state \in {"pending", "running"}
    /\ futures'[k].state # futures[k].state

C28_Step ==
    /\ all_results' # all_results =>
          /\ pc = "cmp_collect"
          /\ \E k \in 1..Len(futures) :
                /\ futures[k].state = "finished"
                /\ futures'[k].state = "yielded"
                /\ all_results' = all_results (+) SetToBag({futures[k].result})
    /\ \A k \in 1..Len(futures) :
          WorkerStep(k) =>
              /\ all_results' = all_results
              /\ Len(futures') = Len(futures)
              /\ \A j \in 1..Len(futures) : j # k => futures'[j] = futures[j]
              /\ UNCHANGED <<pc, ret, available_services, health_results>>

C28_Collected ==
    ret = "results" =>
        /\ \A k \in 1..Len(futures) : ~Raised(k) => CopiesIn(futures[k].result, all_results) = 1
        /\ BagCardinality(all_results) = Cardinality({k \in 1..Len(futures) : ~Raised(k)})

(* C28: in the parallel mode all_results is written only by the dispatching
   thread, in its as_completed loop; a step of a worker changes its own
   future and nothing else; and when a task raised, only its result is
   missing at the return: the result of every other submitted task was
   collected once. *)
C28_OnlyDispatcherWrites == [][C28_Step]_vars /\ []C28_Collected

(* the run returned with one task that raised and the results of the others *)
C28_Witness ==
    /\ ret = "results"
    /\ Len(futures) >= 4
    /\ Cardinality({k \in 1..Len(futures) : Raised(k)}) = 1
    /\ BagCardinality(all_results) = Len(futures) - 1

----------------------------------------------------------------------------
NoneHealthy ==
    /\ Len(health_results) = NumCmpServices
    /\ \A s \in CmpServices : health_results[s] # "healthy"

(* C29: when no service is healthy, run_comprehensive_tests returns the error
   result without dispatching any synthesis request, without saving a results
   file and without generating a report, and main then returns exit code 1. *)
C29_NoServiceNoRun ==
    /\ (NoneHealthy /\ pc \in {"cmp_done", "cmp_exited"}) => ret = "error"
    /\ ret = "error" =>
          /\ futures = <<>>
          /\ all_results = EmptyBag
          /\ ~results_saved
          /\ ~reports_generated
          /\ pc = "cmp_exited" => exit_status = "1"

(* main has returned after a health check in which no service was healthy *)
C29_Witness ==
    /\ NoneHealthy
    /\ pc = "cmp_exited"
    /\ ret = "error"
    /\ exit_status = "1"

----------------------------------------------------------------------------
(* test_comparison_setup: the setup verifier *)

(* main: the list 'checks', in its order *)
checks == <<"Dependencias Python", "Docker", "Docker Compose", "GPU NVIDIA",
            "Estructura de directorios", "Puertos disponibles", "Espacio en disco">>

NumCritical == 5        \* critical_checks = results[:5]

(* what the host can answer to each check *)
PythonDepsOutcomes == {"imported", "ImportError", "other_exception"}
CommandOutcomes == {"returncode_0", "returncode_nonzero", "not_installed"}
DirectoryOutcomes == {"all_present", "some_missing"}
PortOutcomes == {"all_free", "some_busy", "socket_error"}
DiskOutcomes == {"free_2gb_or_more", "free_1gb_to_2gb", "free_under_1gb", "os_error"}

CheckOutcomes(name) ==
    CASE name = "Dependencias Python" -> PythonDepsOutcomes
      [] name \in {"Docker", "Docker Compose", "GPU NVIDIA"} -> CommandOutcomes
      [] name = "Estructura de directorios" -> DirectoryOutcomes
      [] name = "Puertos disponibles" -> PortOutcomes
      [] name = "Espacio en disco" -> DiskOutcomes

(* check_python_deps: ImportError is handled, any other exception escapes *)
check_python_deps(out) ==
    CASE out = "imported" -> "True"
      [] out = "ImportError" -> "False"
      [] out = "other_exception" -> "raise"

(* check_docker, check_docker_compose, check_gpu: the bare except turns a
   command that cannot be run into False *)
check_command(out) == IF out = "returncode_0" THEN "True" ELSE "False"

check_directories(out) == IF out = "all_present" THEN "True" ELSE "False"

(* check_ports: busy ports are a warning, not a failure; no handler *)
check_ports(out) == IF out = "socket_error" THEN "raise" ELSE "True"

(* check_disk_space: True from 2 GB, a warning and True from 1 GB; no handler *)
check_disk_space(out) ==
    CASE out = "free_2gb_or_more" -> "True"
      [] out = "free_1gb_to_2gb" -> "True"
      [] out = "free_under_1gb" -> "False"
      [] out = "os_error" -> "raise"

check_func(name, out) ==
    CASE name = "Dependencias Python" -> check_python_deps(out)
      [] name \in {"Docker", "Docker Compose", "GPU NVIDIA"} -> check_command(out)
      [] name = "Estructura de directorios" -> check_directories(out)
      [] name = "Puertos disponibles" -> check_ports(out)
      [] name = "Espacio en disco" -> check_disk_space(out)

(* main, the body of the loop: result = check_func(); results.append(result),
   and results.append(False) when the call raised *)
CheckResult(r) == r = "True"

All(s) == \A i \in 1..Len(s) : s[i]

VerdictOfAllChecks(r) == All(r)

(* all(critical_checks) with critical_checks = results[:5] *)
Verdict(r) == All(SubSeq(r, 1, IF Len(r) < NumCritical THEN Len(r) ELSE NumCritical))

RunCheck ==
    /\ pc = "setup_checks"
    /\ Len(check_results) < Len(checks)
    /\ LET name == checks[Len(check_results) + 1] IN
         \E out \in CheckOutcomes(name) :
            /\ check_log' = Append(check_log, [name |-> name, met |-> out])
            /\ check_results' = Append(check_results, CheckResult(check_func(name, out)))
    /\ UNCHANGED <<pc, ready, exit_status, interrupts, svcVars, monVars, objVars,
                   resource_stats, copyVars, cmpVars, stop_len, capVars, oracle>>

SetupVerdict ==
    /\ pc = "setup_checks"
    /\ Len(check_results) = Len(checks)
    /\ ready' = IF Verdict(check_results) THEN "True" ELSE "False"
    /\ pc' = "setup_done"
    /\ UNCHANGED <<check_log, check_results, exit_status, interrupts, svcVars, monVars,
                   objVars, resource_stats, copyVars, cmpVars, stop_len, capVars, oracle>>

(* sys.exit(0 if success else 1) *)
SetupExit ==
    /\ pc = "setup_done"
    /\ exit_status' = IF ready = "True" THEN "0" ELSE "1"
    /\ pc' = "setup_exited"
    /\ UNCHANGED <<setupVars, interrupts, svcVars, monVars, objVars,
                   resource_stats, copyVars, cmpVars, stop_len, capVars, oracle>>

NextSetup == RunCheck \/ SetupVerdict \/ SetupExit

InitSetup == pc = "setup_checks" /\ InitVars /\ InitCmpVars

SpecSetup == InitSetup /\ [][NextSetup]_vars

FirstFive == {"Dependencias Python", "Docker", "Docker Compose", "GPU NVIDIA",
              "Estructura de directorios"}

Raising(i) == check_func(check_log[i].name, check_log[i].met) = "raise"

(* C30: the setup verifier calls the seven checks in the order of its list,
   whatever the earlier ones returned or raised; a check that raises is
   recorded as failed; the verdict is ready exactly when the checks Python
   dependencies, Docker, Docker Compose, GPU and directories all passed,
   whatever the port and disk-space checks gave. *)
C30_SetupVerdict ==
    /\ Len(check_log) = Len(check_results)
    /\ \A i \in 1..Len(check_log) :
          /\ check_log[i].name = checks[i]
          /\ Raising(i) => ~check_results[i]
    /\ ready # "none" =>
          /\ Len(check_log) = 7
          /\ ready = "True" <=>
                \A i \in 1..Len(check_log) :
                    check_log[i].name \in FirstFive => check_results[i]

(* the verifier reported ready although the port check raised and the disk
   check failed *)
C30_Witness ==
    /\ pc = "setup_exited"
    /\ ready = "True"
    /\ Raising(6)
    /\ ~check_results[6]
    /\ ~check_results[7]

====
